---------------------------- MODULE Spec2Model ----------------------------
(***************************************************************************)
(* Model of predict.py (cherob/song_classification): the configuration     *)
(* identity / snapshot matching of getTemporaryData, the dataset sizing of *)
(* calculateConfigData and the sample builders getRandomSamples and        *)
(* getFixedSamples.                                                        *)
(*                                                                         *)
(* A configuration attribute value is a pair <<kind, n>>:                  *)
(*   <<"bool", 0>> is False, <<"bool", 1>> is True, <<"num", n>> is the    *)
(*   Python int n, and <<"none", 0>> stands for an attribute the object    *)
(*   does not have (getattr raises AttributeError).                        *)
(* In Python False == 0 and True == 1, so `x == False` holds of the int 0  *)
(* and `x == True` of the int 1; only `x is False` tells them apart.       *)
(*                                                                         *)
(* An int beyond 31 bits, such as sys.maxsize, is <<"long", sign, limbs>>. *)
(*                                                                         *)
(* An identity accumulator (conf.id, config.id) is a Python int in one of  *)
(* these two forms or a Python float <<"float", sign, limbs, e>>; floats   *)
(* arise only where the code leaves a true division unrounded.  The model  *)
(* covers attribute values that are bools or ints.                         *)
(***************************************************************************)
EXTENDS Integers, Sequences, FiniteSets, TLC

VARIABLES
  config,       \* attributes of the global config object (name -> value)
  given,        \* config as Config() built it, before any step changed it
  config_id,    \* config.id
  store,        \* snapshot files under p_date_dir_path, in glob order
  scanned,      \* the files the last getTemporaryData call globbed
  last_config,  \* its result: index into scanned, 0 for None
  idlog,        \* <<conf.id, config.id>> at line 115, per compared candidate
  trace,        \* <<conf.id, config.id>> after each field, last candidate
  runs,         \* number of configurations constructed after the first
  config_min,   \* config.min
  config_max,   \* config.max
  config_data,  \* config.data: << >> while unset, else <<sample set>>
  config_vdata, \* config.vdata, likewise
  df,           \* the class table: number of files of each class
  wav,          \* the corpus: amplitude of each file, 0 for an empty waveform
  pc,           \* position in the module's main flow (lines 462-500)
  out,          \* what the last sample build returned
  reads         \* <<class, file_index>> looked up by the last fixed build

idvars == <<config_id, scanned, last_config, idlog, trace>>
datavars == <<config_min, config_max, config_data, config_vdata>>
envvars == <<df, wav>>
vars == <<config, given, store, runs, pc, out, reads, idvars, datavars,
          envvars>>

-----------------------------------------------------------------------------
(* Attribute values *)

FalseV == <<"bool", 0>>
TrueV == <<"bool", 1>>
NoAttr == <<"none", 0>>
Num(n) == <<"num", n>>

HasAttr(v) == v[1] # "none"
EqFalse(v) == v[1] # "long" /\ v[2] = 0
EqTrue(v) == v[1] # "long" /\ v[2] = 1
IsFalse(v) == v = FalseV

(* The importance list of getTemporaryData, in its order. *)
importance ==
  << "use_random_in_feat", "nfilt", "nfeat", "nfft", "frame_rate",
     "sample_length", "audio_length", "audio_startpoint",
     "validation_data_mult", "cat", "max_class_files" >>

ImportanceSet == { importance[i] : i \in 1..Len(importance) }

-----------------------------------------------------------------------------
(* Bounds and inputs *)

MaxRuns == 1
MaxStore == 2
MaxClasses == 3
MaxFiles == 2
MaxRequest == 8

AttrValues == { FalseV, TrueV, NoAttr, Num(0), Num(1), Num(2), Num(3) }

(* config.id as Config() leaves it. *)
InitialId == Num(0)

(* A configuration with the size fields unset, as the sizing step expects, *)
(* written by a version of the configuration module that had no            *)
(* validation_data_mult yet.                                               *)
ConfigUnset ==
  [ use_random_in_feat |-> FalseV, nfilt |-> Num(3), nfeat |-> Num(2),
    nfft |-> Num(3), frame_rate |-> Num(2), sample_length |-> Num(2),
    audio_length |-> Num(4), audio_startpoint |-> Num(0),
    validation_data_mult |-> NoAttr, cat |-> FalseV,
    max_class_files |-> FalseV, max_tack_samples |-> FalseV,
    max_data |-> FalseV, use_checkpoints |-> FalseV,
    use_random_in_val_feat |-> FalseV ]

(* A configuration with every size given: three categories, one file per   *)
(* class.                                                                  *)
ConfigSized ==
  [ use_random_in_feat |-> TrueV, nfilt |-> Num(3), nfeat |-> Num(2),
    nfft |-> Num(3), frame_rate |-> Num(2), sample_length |-> Num(2),
    audio_length |-> Num(4), audio_startpoint |-> Num(0),
    validation_data_mult |-> Num(1), cat |-> Num(3),
    max_class_files |-> Num(1), max_tack_samples |-> Num(2),
    max_data |-> Num(6), use_checkpoints |-> FalseV,
    use_random_in_val_feat |-> FalseV ]

BaseConfigs == { ConfigUnset, ConfigSized }

(* Class tables: one to MaxClasses classes of one to MaxFiles files. *)
Tables == UNION { [ 1..n -> 1..MaxFiles ] : n \in 1..MaxClasses }

Files(table) ==
  { <<c, i>> : c \in 1..Len(table), i \in 0..(MaxFiles - 1) }
    \cap { f \in (1..Len(table)) \X (0..(MaxFiles - 1)) : f[2] < table[f[1]] }

(* Corpora: every file of amplitude 1; or the first file of the first      *)
(* class empty; or the last file of the first class of amplitude 2.        *)
Quiet(table) == [ f \in Files(table) |-> 1 ]
Corpora(table) ==
  { Quiet(table),
    [ Quiet(table) EXCEPT ![<<1, 0>>] = 0 ],
    [ Quiet(table) EXCEPT ![<<1, table[1] - 1>>] = 2 ] }

(* Size overrides of the main flow: unset, within reach, over-large. *)
FlowConfigs ==
  { [ ConfigUnset EXCEPT !.validation_data_mult = Num(1), !.cat = c,
        !.max_class_files = f, !.max_tack_samples = t, !.max_data = d ] :
      c \in { FalseV, Num(1), Num(2), Num(5) },
      f \in { FalseV, Num(1), Num(5) },
      t \in { FalseV, Num(1), Num(5) },
      d \in { FalseV, Num(3), Num(50) } }

(* Configurations and tables the builders are called with. *)
BuildConfigs ==
  { [ ConfigUnset EXCEPT !.validation_data_mult = Num(1),
        !.use_random_in_feat = r, !.use_random_in_val_feat = v,
        !.use_checkpoints = k ] :
      r \in { FalseV, TrueV }, v \in { FalseV, TrueV },
      k \in { FalseV, TrueV } }

BuildTables == { <<2, 2>>, <<2, 2, 2>> }

(* The samples an earlier run attached to its snapshot. *)
PriorSamples == [ y |-> <<0, 1>>, min |-> Num(-1), max |-> Num(1) ]

(* What a run of the older configuration left in the directory: it found   *)
(* the directory empty, so config.id was still the initial one.            *)
LegacySnapshot ==
  [ name |-> Num(0), conf |-> ConfigUnset, data |-> << >>, vdata |-> << >> ]

-----------------------------------------------------------------------------
(* Python numbers *)

(* Python ints are unbounded and sys.maxsize is 2^63 - 1, so a magnitude   *)
(* is kept as a natural number in limbs: a sequence of digits to the base  *)
(* 2^15, lowest first, without a leading zero digit; << >> is 0.           *)
Base == 2 ^ 15

Abs(n) == IF n < 0 THEN -n ELSE n

RECURSIVE NatOf(_)
NatOf(n) == IF n = 0 THEN << >> ELSE << n % Base >> \o NatOf(n \div Base)

Limb(a, i) == IF i <= Len(a) THEN a[i] ELSE 0

RECURSIVE Trim(_)
Trim(a) ==
  IF Len(a) > 0 /\ a[Len(a)] = 0 THEN Trim(SubSeq(a, 1, Len(a) - 1)) ELSE a

Zeros(n) == [ i \in 1..n |-> 0 ]

(* The magnitudes an int of at most 31 bits has, and its value. *)
NatFits(a) == Len(a) <= 2 \/ (Len(a) = 3 /\ a[3] <= 1)
IntOfNat(a) == Limb(a, 1) + Base * Limb(a, 2) + Base * Base * Limb(a, 3)

RECURSIVE AddFrom(_, _, _, _)
AddFrom(a, b, i, carry) ==
  IF i > Len(a) /\ i > Len(b) THEN NatOf(carry)
  ELSE << (Limb(a, i) + Limb(b, i) + carry) % Base >>
         \o AddFrom(a, b, i + 1, (Limb(a, i) + Limb(b, i) + carry) \div Base)

NatAdd(a, b) == AddFrom(a, b, 1, 0)

(* a - b for a >= b *)
RECURSIVE SubFrom(_, _, _, _)
SubFrom(a, b, i, borrow) ==
  IF i > Len(a) THEN << >>
  ELSE << (a[i] - Limb(b, i) - borrow) % Base >>
         \o SubFrom(a, b, i + 1,
                    IF a[i] - Limb(b, i) - borrow < 0 THEN 1 ELSE 0)

NatSub(a, b) == Trim(SubFrom(a, b, 1, 0))

RECURSIVE CmpFrom(_, _, _)
CmpFrom(a, b, i) ==
  IF i = 0 THEN 0
  ELSE IF a[i] < b[i] THEN -1
  ELSE IF a[i] > b[i] THEN 1
  ELSE CmpFrom(a, b, i - 1)

(* -1, 0 or 1 as a is below, equal to or above b *)
NatCmp(a, b) ==
  IF Len(a) < Len(b) THEN -1
  ELSE IF Len(a) > Len(b) THEN 1
  ELSE CmpFrom(a, b, Len(a))

(* a * k for a digit k *)
RECURSIVE MulFrom(_, _, _, _)
MulFrom(a, k, i, carry) ==
  IF i > Len(a) THEN NatOf(carry)
  ELSE << (a[i] * k + carry) % Base >>
         \o MulFrom(a, k, i + 1, (a[i] * k + carry) \div Base)

NatMulSmall(a, k) == Trim(MulFrom(a, k, 1, 0))

RECURSIVE MulLimbs(_, _, _)
MulLimbs(a, b, j) ==
  IF j > Len(b) THEN << >>
  ELSE NatAdd(Zeros(j - 1) \o MulFrom(a, b[j], 1, 0), MulLimbs(a, b, j + 1))

NatMul(a, b) == Trim(MulLimbs(a, b, 1))

(* <<a \div k, a % k>> for a digit k >= 1, from the highest limb down *)
DivPut(lower, q) == << Append(lower[1], q), lower[2] >>

RECURSIVE DivDown(_, _, _, _)
DivDown(a, k, i, rem) ==
  IF i = 0 THEN << << >>, rem >>
  ELSE DivPut(DivDown(a, k, i - 1, (rem * Base + a[i]) % k),
              (rem * Base + a[i]) \div k)

DivTrim(qr) == << Trim(qr[1]), qr[2] >>

NatDivMod(a, k) == DivTrim(DivDown(a, k, Len(a), 0))

(* Binary places *)
BitLen(n) == CHOOSE k \in 1..15 : 2 ^ (k - 1) <= n /\ n < 2 ^ k

NatBits(a) ==
  IF Len(a) = 0 THEN 0 ELSE 15 * (Len(a) - 1) + BitLen(a[Len(a)])

NatBit(a, i) == (Limb(a, (i \div 15) + 1) \div (2 ^ (i % 15))) % 2

(* the s lowest bits of a are all 0 *)
NatLowZero(a, s) ==
  /\ \A i \in 1..(s \div 15) : Limb(a, i) = 0
  /\ Limb(a, (s \div 15) + 1) % (2 ^ (s % 15)) = 0

NatShl(a, s) == Trim(Zeros(s \div 15) \o MulFrom(a, 2 ^ (s % 15), 1, 0))

NatShr(a, s) ==
  IF s \div 15 >= Len(a) THEN << >>
  ELSE NatDivMod(SubSeq(a, (s \div 15) + 1, Len(a)), 2 ^ (s % 15))[1]

TzLimb(n) == CHOOSE k \in 0..14 : n % (2 ^ (k + 1)) # 0 /\ n % (2 ^ k) = 0

(* the number of trailing zero bits of a # 0 *)
RECURSIVE NatTz(_)
NatTz(a) ==
  IF Len(a) = 0 THEN 0
  ELSE IF a[1] = 0 THEN 15 + NatTz(Tail(a))
  ELSE TzLimb(a[1])

(* Signed sums of magnitudes, as <<sign, magnitude>> *)
SignedDiff(sx, a, sy, b, c) ==
  IF c = 0 THEN << 1, << >> >>
  ELSE IF c > 0 THEN << sx, NatSub(a, b) >>
  ELSE << sy, NatSub(b, a) >>

SignedSum(sx, a, sy, b) ==
  IF sx = sy THEN << sx, NatAdd(a, b) >>
  ELSE SignedDiff(sx, a, sy, b, NatCmp(a, b))

(* A Python int: <<"num", n>> while n has at most 31 bits, and              *)
(* <<"long", sign, limbs>> beyond.                                          *)
PyInt(s, a) == IF NatFits(a) THEN Num(s * IntOfNat(a)) ELSE <<"long", s, a>>

(* A Python float (an IEEE double): <<"float", sign, limbs, e>> is          *)
(* sign * limbs * 2^e with limbs odd, or 0.0 with no limbs.  Exponent       *)
(* overflow and subnormals are out of the model's range.                    *)
Dyadic(s, a, e, tz) ==
  IF Len(a) = 0 THEN <<"float", 1, << >>, 0>>
  ELSE <<"float", s, NatShr(a, tz), e + tz>>

Float(s, m) == Dyadic(s, m[1], m[2], NatTz(m[1]))

IsFloat(x) == x[1] = "float"
IsSmall(x) == x[1] = "num" \/ x[1] = "bool"

Sign(x) ==
  IF x[1] = "long" \/ x[1] = "float" THEN x[2]
  ELSE IF x[2] < 0 THEN -1 ELSE 1

Mag(x) ==
  IF x[1] = "long" \/ x[1] = "float" THEN x[3] ELSE NatOf(Abs(x[2]))

Exp(x) == IF x[1] = "float" THEN x[4] ELSE 0

(* a * 2^e rounded to the 53 bits of a double, ties to even; d is the      *)
(* number of bits a has beyond 53 and sticky tells that a stands for a     *)
(* quotient with a remainder.                                              *)
RoundBits(a, e, sticky, d) ==
  IF d <= 0 THEN << a, e >>
  ELSE << IF /\ NatBit(a, d - 1) = 1
             /\ (sticky \/ ~NatLowZero(a, d - 1) \/ NatBit(a, d) = 1)
            THEN NatAdd(NatShr(a, d), << 1 >>)
            ELSE NatShr(a, d),
          e + d >>

Round53(a, e, sticky) == RoundBits(a, e, sticky, NatBits(a) - 53)

(* float(n) for an int n *)
ToFloat(n) == Float(Sign(n), Round53(Mag(n), 0, FALSE))

PairInt(p) == PyInt(p[1], p[2])

(* int + int *)
IntAdd(x, y) ==
  IF IsSmall(x) /\ IsSmall(y) /\ Abs(x[2]) < 2 ^ 30 /\ Abs(y[2]) < 2 ^ 30
    THEN Num(x[2] + y[2])
    ELSE PairInt(SignedSum(Sign(x), Mag(x), Sign(y), Mag(y)))

(* int * int *)
IntMul(x, y) ==
  IF /\ IsSmall(x) /\ IsSmall(y)
     /\ (y[2] = 0 \/ Abs(x[2]) <= (2 ^ 30) \div Abs(y[2]))
    THEN Num(x[2] * y[2])
    ELSE PyInt(Sign(x) * Sign(y), NatMul(Mag(x), Mag(y)))

(* x > y for ints *)
PyGt(x, y) ==
  IF IsSmall(x) /\ IsSmall(y) THEN x[2] > y[2]
  ELSE IF Sign(x) # Sign(y) THEN Sign(x) > Sign(y)
  ELSE Sign(x) * NatCmp(Mag(x), Mag(y)) > 0

(* x == y for ints and floats: equal when they are the same real number *)
PyEq(x, y) ==
  IF IsSmall(x) /\ IsSmall(y) THEN x[2] = y[2]
  ELSE Float(Sign(x), << Mag(x), Exp(x) >>)
         = Float(Sign(y), << Mag(y), Exp(y) >>)

(* x * L for an int or float x and a small int L >= 0 *)
PyMul(x, L) ==
  IF IsFloat(x)
    THEN Float(x[2], Round53(NatMulSmall(x[3], L), x[4], FALSE))
    ELSE IntMul(x, Num(L))

(* x / L for an int or float x and a small int L >= 1: the correctly       *)
(* rounded quotient, always a float.                                       *)
Quot(qr, e) == Round53(qr[1], e, qr[2] # 0)

PyDiv(x, L) ==
  Float(Sign(x), Quot(NatDivMod(NatShl(Mag(x), 64), L), Exp(x) - 64))

(* float + float *)
FloatSum(p, e) == Float(p[1], Round53(p[2], e, FALSE))

FloatAlign(x, y, e) ==
  FloatSum(SignedSum(x[2], NatShl(x[3], x[4] - e),
                     y[2], NatShl(y[3], y[4] - e)), e)

FloatAdd(x, y) == FloatAlign(x, y, IF x[4] < y[4] THEN x[4] ELSE y[4])

(* x + n for an int or float x and an int n: a float x takes float(n) *)
PyAdd(x, n) == IF IsFloat(x) THEN FloatAdd(x, ToFloat(n)) ELSE IntAdd(x, n)

(* round(x): Python 3 rounds a float to the nearest int, ties to even, and *)
(* leaves an int as it is.                                                 *)
PyRound(x) ==
  IF ~IsFloat(x) THEN x
  ELSE IF x[4] >= 0 THEN PyInt(x[2], NatShl(x[3], x[4]))
  ELSE PyInt(x[2], RoundBits(x[3], x[4], FALSE, -x[4])[1])

(* abs(x) *)
PyAbs(x) == IF IsSmall(x) THEN Num(Abs(x[2])) ELSE [ x EXCEPT ![2] = 1 ]

-----------------------------------------------------------------------------
(* getTemporaryData, lines 86-119 *)

(* Lines 96-101 / 103-108: the update of one accumulator by the branch    *)
(* the attribute value v selects, L being len(prop).                       *)
Branch(id, v, L) ==
  IF EqFalse(v) THEN PyMul(id, L)
  ELSE IF EqTrue(v) THEN PyDiv(id, L)
  ELSE PyAdd(id, IntMul(v, Num(10)))

(* BranchRound with a numeric branch that adds 10 whatever the value. *)
BranchRound_IgnoresValue(id, v, L) ==
  IF EqFalse(v) THEN IntAdd(PyRound(PyMul(id, L)), Num(1))
  ELSE IF EqTrue(v) THEN IntAdd(PyRound(PyDiv(id, L)), Num(1))
  ELSE IntAdd(PyRound(PyAdd(id, Num(10))), Num(1))

(* The branch update followed by line 109 / 110: round(id) + 1. *)
BranchRound(id, v, L) == IntAdd(PyRound(Branch(id, v, L)), Num(1))

(* Lines 96-101 followed by line 114: conf.id was updated by its branch,   *)
(* then getattr(config, prop) raised and the handler multiplied conf.id.   *)
BranchExcept(id, v, L) == PyMul(Branch(id, v, L), L)

(* One iteration of the loop over importance (lines 93-114) on the pair    *)
(* ids = <<conf.id, config.id>>.                                           *)
FieldStep(conf, cfg, prop, ids) ==
  LET L == Len(prop)
  IN  IF ~HasAttr(conf[prop])
        THEN << PyMul(ids[1], L), PyMul(ids[2], L) >>
      ELSE IF ~HasAttr(cfg[prop])
        THEN << BranchExcept(ids[1], conf[prop], L), PyMul(ids[2], L) >>
      ELSE << BranchRound(ids[1], conf[prop], L),
              BranchRound(ids[2], cfg[prop], L) >>

(* The trace t of the first k - 1 fields extended by field k. *)
Extend(conf, cfg, ids, k, t) ==
  Append(t, FieldStep(conf, cfg, importance[k],
                      IF k = 1 THEN ids ELSE t[k - 1]))

(* The pairs after each of the first k fields. *)
RECURSIVE FieldTrace(_, _, _, _)
FieldTrace(conf, cfg, ids, k) ==
  IF k = 0 THEN << >>
  ELSE Extend(conf, cfg, ids, k, FieldTrace(conf, cfg, ids, k - 1))

(* ResetIds without line 89: config.id keeps what the last comparison     *)
(* left in it.                                                             *)
ResetIds_KeepsConfigId(ids) == << Num(1), ids[2] >>

(* Lines 89-90: both ids are set to 1 before a candidate is compared. *)
ResetIds(ids) == << Num(1), Num(1) >>

(* Lines 88-114 for one candidate; gid is config.id on entry. *)
Compare(conf, cfg, gid) ==
  FieldTrace(conf, cfg, ResetIds(<< Num(1), gid >>), Len(importance))

RECURSIVE Scan(_, _, _, _, _, _)

(* Lines 115-117 for candidate i whose field trace is t: return it when    *)
(* the ids are equal, else go on with the next file.                       *)
ScanFile(files, cfg, i, log, t) ==
  LET fin == t[Len(t)]
  IN  IF PyEq(fin[1], fin[2])
        THEN [ found |-> i, id |-> fin[2], log |-> Append(log, fin),
               trace |-> t ]
        ELSE Scan(files, cfg, i + 1, fin[2], Append(log, fin), t)

(* Scan without the return of line 117: the loop goes on after a match and *)
(* the last matching file wins.                                            *)
RECURSIVE Scan_LastMatch(_, _, _, _, _, _)
Scan_LastMatch(files, cfg, i, gid, log, tr) ==
  IF i > Len(files)
    THEN [ found |-> 0, id |-> gid, log |-> log, trace |-> tr ]
  ELSE LET t == Compare(files[i].conf, cfg, gid)
           fin == t[Len(t)]
           rest == Scan_LastMatch(files, cfg, i + 1, fin[2],
                                  Append(log, fin), t)
       IN  IF PyEq(fin[1], fin[2]) /\ rest.found = 0
             THEN [ rest EXCEPT !.found = i ]
             ELSE rest

(* The loop over the files (lines 87-119) from candidate i on; gid is      *)
(* config.id, log the pairs compared so far and tr the field trace of the  *)
(* previous candidate.  Returns the index of the accepted candidate (0 for *)
(* None) and config.id on return.                                          *)
Scan(files, cfg, i, gid, log, tr) ==
  IF i > Len(files)
    THEN [ found |-> 0, id |-> gid, log |-> log, trace |-> tr ]
  ELSE ScanFile(files, cfg, i, log, Compare(files[i].conf, cfg, gid))

(* The state getTemporaryData leaves after a scan that returned r. *)
Returns(r) ==
  /\ config_id' = r.id
  /\ scanned' = store
  /\ last_config' = r.found
  /\ idlog' = r.log
  /\ trace' = r.trace

Lookup == Returns(Scan(store, config, 1, config_id, << >>, << >>))

getTemporaryData ==
  /\ Lookup
  /\ UNCHANGED <<config, given, store, runs, pc, out, reads, datavars,
                 envvars>>

-----------------------------------------------------------------------------
(* saveConfig, lines 43-47 *)

(* The file is named str(abs(x.id)) + '.p'; an existing file of that name  *)
(* is overwritten, a new one appears anywhere in the glob order.           *)
InsertAt(seq, pos, e) ==
  [ k \in 1..(Len(seq) + 1) |->
      IF k < pos THEN seq[k] ELSE IF k = pos THEN e ELSE seq[k - 1] ]

AbsId(id) == PyAbs(id)

(* The directory after pickling the object e under its name. *)
Saved(files, e) ==
  IF \E i \in 1..Len(files) : files[i].name = e.name
    THEN { [ i \in 1..Len(files) |->
               IF files[i].name = e.name THEN e ELSE files[i] ] }
  ELSE IF Len(files) < MaxStore
    THEN { InsertAt(files, pos, e) : pos \in 1..(Len(files) + 1) }
  ELSE { }

Pickle(cfg, id, data, vdata) ==
  [ name |-> AbsId(id), conf |-> cfg, data |-> data, vdata |-> vdata ]

saveConfig ==
  /\ store' \in Saved(store, Pickle(config, config_id, config_data,
                                     config_vdata))
  /\ UNCHANGED <<config, given, runs, pc, out, reads, idvars, datavars,
                 envvars>>

-----------------------------------------------------------------------------
(* Getters, lines 54-77 *)

(* int(a / b) for ints, b # 0: the true quotient truncated towards zero. *)
TruncDiv(a, b) ==
  LET n == IF a < 0 THEN -a ELSE a
      d == IF b < 0 THEN -b ELSE b
      q == n \div d
  IN  IF (a < 0) = (b < 0) THEN q ELSE -q

(* The product of line 55, from the left. *)
getMaximumData(cfg) ==
  IntMul(IntMul(cfg.max_class_files, cfg.cat), cfg.max_tack_samples)

getMaximumSamples(cfg) ==
  Num(TruncDiv(cfg.audio_length[2], cfg.sample_length[2]))

getRefactoredData(data, cfg) == TruncDiv(data, cfg.cat[2]) * cfg.cat[2]

(* sys.maxsize (line 71) is 2^63 - 1 = 9223372036854775807 on a 64-bit     *)
(* CPython: 7 * 2^60 + (2^60 - 1).                                         *)
SysMaxsize == <<"long", 1, << 32767, 32767, 32767, 32767, 7 >> >>

(* Lines 73-76 from class k on. *)
RECURSIVE MinFiles(_, _, _)
MinFiles(table, k, minorityFiles) ==
  IF k > Len(table) THEN minorityFiles
  ELSE MinFiles(table, k + 1,
                IF PyGt(minorityFiles, Num(table[k])) THEN Num(table[k])
                ELSE minorityFiles)

(* Lines 70-77. *)
getSmallestDataset(table) == MinFiles(table, 1, SysMaxsize)

-----------------------------------------------------------------------------
(* calculateConfigData, lines 411-442 *)

(* Clamp without the inner comparison: a given value is always kept. *)
Clamp_KeepsOverLarge(v, maximum) ==
  IF IsFalse(v) THEN maximum ELSE v

(* One of the four blocks: an attribute that `is False` gets the maximum,  *)
(* one above the maximum is set to it, any other is left as it is.         *)
Clamp(v, maximum) ==
  IF IsFalse(v) THEN maximum
  ELSE IF PyGt(v, maximum) THEN maximum
  ELSE v

Sized(cfg, table) ==
  LET c1 == [ cfg EXCEPT !.cat = Clamp(cfg.cat, Num(Len(table))) ]
      c2 == [ c1 EXCEPT !.max_class_files =
                Clamp(c1.max_class_files, getSmallestDataset(table)) ]
      c3 == [ c2 EXCEPT !.max_tack_samples =
                Clamp(c2.max_tack_samples, getMaximumSamples(c2)) ]
  IN  [ c3 EXCEPT !.max_data = Clamp(c3.max_data, getMaximumData(c3)) ]

calculateConfigData ==
  /\ pc = "start"
  /\ config' = Sized(config, df)
  /\ pc' = "sized"
  /\ UNCHANGED <<given, store, runs, out, reads, idvars, datavars, envvars>>

-----------------------------------------------------------------------------
(* getRandomSamples and getFixedSamples, lines 154-257 *)

PosInf == <<"inf", 0>>
NegInf == <<"-inf", 0>>

MinOf(a, b) ==
  IF a = PosInf THEN b ELSE IF b = PosInf THEN a
  ELSE IF a[2] <= b[2] THEN a ELSE b

MaxOf(a, b) ==
  IF a = NegInf THEN b ELSE IF b = NegInf THEN a
  ELSE IF a[2] >= b[2] THEN a ELSE b

(* np.amin and np.amax of the mfcc matrix of a window of a file, by the    *)
(* file's amplitude.                                                       *)
FeatMin(amplitude) == Num(-amplitude)
FeatMax(amplitude) == Num(amplitude)

RECURSIVE Repeat(_, _)
Repeat(x, n) == IF n <= 0 THEN << >> ELSE Append(Repeat(x, n - 1), x)

EmptyBuild == [ y |-> << >>, min |-> PosInf, max |-> NegInf, reads |-> { },
                skips |-> 0, err |-> FALSE ]

(* The loops of getFixedSamples (lines 215-241) from step k on, step k     *)
(* being file_index = k \div len(classes) of class (k % len(classes)) + 1. *)
RECURSIVE FixedLoop(_, _, _, _, _, _)
FixedLoop(k, steps, table, corpus, tack, b) ==
  IF k >= steps \/ b.err THEN b
  ELSE LET class == (k % Len(table)) + 1
           file_index == k \div Len(table)
           seen == b.reads \cup { <<class, file_index>> }
       IN  IF file_index >= table[class]
             THEN [ b EXCEPT !.reads = seen, !.err = TRUE ]
           ELSE IF corpus[<<class, file_index>>] = 0
             THEN FixedLoop(k + 1, steps, table, corpus, tack,
                            [ b EXCEPT !.reads = seen, !.skips = @ + 1 ])
           ELSE FixedLoop(k + 1, steps, table, corpus, tack,
                  [ b EXCEPT
                      !.reads = seen,
                      !.y = b.y \o Repeat(class - 1, tack),
                      !.min = IF tack > 0
                                THEN MinOf(FeatMin(corpus[<<class, file_index>>]), b.min)
                                ELSE b.min,
                      !.max = IF tack > 0
                                THEN MaxOf(FeatMax(corpus[<<class, file_index>>]), b.max)
                                ELSE b.max ])

(* The loops of getRandomSamples (lines 161-188); picks[k] is the file     *)
(* np.random.choice returns at step k.                                     *)
RECURSIVE RandomLoop(_, _, _, _, _, _)
RandomLoop(k, steps, table, corpus, picks, b) ==
  IF k >= steps THEN b
  ELSE LET class == (k % Len(table)) + 1
           a == corpus[<<class, picks[k]>>]
       IN  IF a = 0
             THEN RandomLoop(k + 1, steps, table, corpus, picks,
                             [ b EXCEPT !.skips = @ + 1 ])
           ELSE RandomLoop(k + 1, steps, table, corpus, picks,
                  [ b EXCEPT !.y = Append(b.y, class - 1),
                             !.min = MinOf(FeatMin(a), b.min),
                             !.max = MaxOf(FeatMax(a), b.max) ])

(* Lines 190-204 and 243-257: config.min and config.max are assigned,      *)
(* then X is normalised and reshaped, and y is one-hot encoded over        *)
(* config.cat classes.  X.shape[1] of an empty X and a label >= config.cat *)
(* raise IndexError.                                                       *)
Finish(b, cfg, mode, datasets) ==
  LET r == [ status |-> "ok", assigned |-> TRUE, y |-> b.y, min |-> b.min,
             max |-> b.max, reads |-> b.reads, skips |-> b.skips,
             mode |-> mode, datasets |-> datasets ]
  IN  IF b.err
        THEN [ r EXCEPT !.status = "IndexError", !.assigned = FALSE ]
      ELSE IF Len(b.y) = 0 \/ \E i \in 1..Len(b.y) : b.y[i] >= cfg.cat[2]
        THEN [ r EXCEPT !.status = "IndexError" ]
      ELSE r

(* A division by config.cat = 0 (line 64) or by config.max_tack_samples = 0 *)
(* (line 211) raises ZeroDivisionError before any file is looked up.        *)
ZeroDivision(mode, datasets) ==
  [ status |-> "ZeroDivisionError", assigned |-> FALSE, y |-> << >>,
    min |-> PosInf, max |-> NegInf, reads |-> { }, skips |-> 0,
    mode |-> mode, datasets |-> datasets ]

(* FixedFiles without the division by max_tack_samples. *)
FixedFiles_PerSample(datasets, cfg) ==
  TruncDiv(getRefactoredData(datasets, cfg), cfg.cat[2])

(* The number of files per class getFixedSamples enumerates (line 211). *)
FixedFiles(datasets, cfg) ==
  TruncDiv(getRefactoredData(datasets, cfg),
           cfg.max_tack_samples[2] * cfg.cat[2])

getFixedSamples(datasets, cfg, table, corpus) ==
  IF cfg.cat[2] = 0 \/ cfg.max_tack_samples[2] = 0
    THEN ZeroDivision("fixed", datasets)
    ELSE Finish(FixedLoop(0, FixedFiles(datasets, cfg) * Len(table), table,
                          corpus, cfg.max_tack_samples[2], EmptyBuild),
                cfg, "fixed", datasets)

(* The number of rounds of getRandomSamples (line 161). *)
RandomRounds(datasets, cfg) == TruncDiv(getRefactoredData(datasets, cfg), 3)

RandomPicks(datasets, cfg, table) ==
  LET steps == RandomRounds(datasets, cfg) * Len(table)
  IN  { f \in [ 0..(steps - 1) -> 0..(MaxFiles - 1) ] :
          \A k \in 0..(steps - 1) : f[k] < table[(k % Len(table)) + 1] }

getRandomSamples(datasets, cfg, table, corpus, picks) ==
  IF cfg.cat[2] = 0
    THEN ZeroDivision("random", datasets)
    ELSE Finish(RandomLoop(0, RandomRounds(datasets, cfg) * Len(table),
                           table, corpus, picks, EmptyBuild),
                cfg, "random", datasets)

-----------------------------------------------------------------------------
(* Builders, lines 265-321 *)

Truthy(v) == HasAttr(v) /\ v[2] # 0

(* [X, y]: the labels, and the bounds X was normalised with. *)
SampleSet(r) == [ y |-> r.y, min |-> r.min, max |-> r.max ]

(* What a build returned, with the mode and the count it was asked for. *)
Returned(r) ==
  [ y |-> r.y, min |-> r.min, max |-> r.max, mode |-> r.mode,
    datasets |-> r.datasets, skips |-> r.skips ]

(* The effect of a sample build r on config.min, config.max, reads and on  *)
(* the flow: an exception ends the run.                                    *)
Built(r, next) ==
  /\ config_min' = IF r.assigned THEN r.min ELSE config_min
  /\ config_max' = IF r.assigned THEN r.max ELSE config_max
  /\ reads' = r.reads
  /\ pc' = IF r.status = "ok" THEN next ELSE "crashed"

Builds(datasets, random) ==
  IF random
    THEN { getRandomSamples(datasets, config, df, wav, picks) :
             picks \in IF config.cat[2] = 0 THEN { << >> }
                       ELSE RandomPicks(datasets, config, df) }
    ELSE { getFixedSamples(datasets, config, df, wav) }

buildSamples(datasets) ==
  /\ pc = "matched"
  /\ \E r \in Builds(datasets, Truthy(config.use_random_in_feat)) :
       /\ Built(r, "matched")
       /\ IF r.status = "ok"
            THEN /\ config_data' = << SampleSet(r) >>
                 /\ out' = << Returned(r) >>
                 /\ store' \in Saved(store, Pickle(config, config_id,
                                                   config_data', config_vdata))
            ELSE UNCHANGED <<config_data, out, store>>
  /\ UNCHANGED <<config, given, config_vdata, runs, idvars, envvars>>

buildPredctions(datasets) ==
  /\ \E r \in Builds(datasets, FALSE) :
       /\ Built(r, "predicted")
       /\ out' = IF r.status = "ok" THEN << Returned(r) >> ELSE out
  /\ UNCHANGED <<config, given, config_data, config_vdata, store, runs,
                 idvars, envvars>>

(* Lines 295-306: with checkpoints on and a last_config that has vdata,    *)
(* the samples of last_config.data are returned and nothing is built.      *)
Cached ==
  /\ Truthy(config.use_checkpoints)
  /\ last_config > 0
  /\ scanned[last_config].vdata # << >>
  /\ scanned[last_config].data # << >>

buildValidationSamples(datasets) ==
  /\ pc = "matched"
  /\ IF Cached
       THEN /\ out' = << [ y |-> scanned[last_config].data[1].y,
                            min |-> scanned[last_config].data[1].min,
                            max |-> scanned[last_config].data[1].max,
                            mode |-> "cached", datasets |-> datasets,
                            skips |-> 0 ] >>
            /\ UNCHANGED <<config_min, config_max, config_vdata, store,
                           reads, pc>>
       ELSE \E r \in Builds(datasets * config.validation_data_mult[2],
                            Truthy(config.use_random_in_val_feat)) :
              /\ Built(r, "matched")
              /\ IF r.status = "ok"
                   THEN /\ config_vdata' = << SampleSet(r) >>
                        /\ out' = << Returned(r) >>
                        /\ store' \in Saved(store, Pickle(config, config_id,
                                                config_data, config_vdata'))
                   ELSE UNCHANGED <<config_vdata, out, store>>
  /\ UNCHANGED <<config, given, config_data, runs, idvars, envvars>>

-----------------------------------------------------------------------------
(* config = Config(), line 40 *)

(* A run starts from the configuration module as the user left it: the     *)
(* previous one with one attribute set, added or removed.                  *)
NewConfig(prop, v) ==
  /\ runs < MaxRuns
  /\ v # config[prop]
  /\ config' = [ config EXCEPT ![prop] = v ]
  /\ given' = config'
  /\ config_id' = InitialId
  /\ scanned' = << >>
  /\ last_config' = 0
  /\ idlog' = << >>
  /\ trace' = << >>
  /\ runs' = runs + 1
  /\ UNCHANGED <<store, pc, out, reads, datavars, envvars>>

-----------------------------------------------------------------------------
(* The module's main flow, lines 474-481 *)

(* last_config = getTemporaryData(), line 478 *)
LoadLastConfig ==
  /\ pc = "sized"
  /\ Lookup
  /\ pc' = "matched"
  /\ UNCHANGED <<config, given, store, runs, out, reads, datavars, envvars>>

(* buildPredctions(config.max_data, last_config), line 481 *)
Predict ==
  /\ pc = "matched"
  /\ buildPredctions(config.max_data[2])

-----------------------------------------------------------------------------
(* Specifications *)

Fresh ==
  /\ given = config
  /\ config_id = InitialId
  /\ scanned = << >>
  /\ last_config = 0
  /\ idlog = << >>
  /\ trace = << >>
  /\ runs = 0
  /\ config_min = NoAttr
  /\ config_max = NoAttr
  /\ config_data = << >>
  /\ config_vdata = << >>
  /\ pc = "start"
  /\ out = << >>
  /\ reads = { }

(* Configurations compared with the snapshots of earlier runs. *)
Init ==
  /\ config \in BaseConfigs
  /\ store \in { << >>, << LegacySnapshot >> }
  /\ df = <<1, 1>>
  /\ wav = Quiet(df)
  /\ Fresh

Next ==
  \/ \E prop \in ImportanceSet, v \in AttrValues : NewConfig(prop, v)
  \/ saveConfig
  \/ getTemporaryData

Spec == Init /\ [][Next]_vars

(* The main flow over class tables and size overrides. *)
InitFlow ==
  /\ config \in FlowConfigs
  /\ df \in Tables
  /\ wav \in Corpora(df)
  /\ store \in { << >>, << Pickle(Sized(config, df), InitialId, << >>, << >>) >> }
  /\ Fresh

NextFlow ==
  \/ calculateConfigData
  \/ LoadLastConfig
  \/ Predict

SpecFlow == InitFlow /\ [][NextFlow]_vars

(* The sample builders called with any count. *)
InitBuild ==
  /\ config \in BuildConfigs
  /\ df \in BuildTables
  /\ wav \in Corpora(df)
  /\ store \in { << >>, << Pickle(Sized(config, df), InitialId,
                                  << PriorSamples >>, << PriorSamples >>) >> }
  /\ Fresh

NextBuild ==
  \/ calculateConfigData
  \/ LoadLastConfig
  \/ \E n \in 0..MaxRequest : buildSamples(n)
  \/ \E n \in 0..MaxRequest : buildValidationSamples(n)
  \/ Predict

SpecBuild == InitBuild /\ [][NextBuild]_vars

-----------------------------------------------------------------------------
(* Properties of getTemporaryData *)

(* The final pair of a comparison computed on its own, both ids from 1. *)
FreshFinal(conf, cfg) ==
  FieldTrace(conf, cfg, << Num(1), Num(1) >>, Len(importance))[Len(importance)]

(* Equal on every importance field, with the same fields missing. *)
SameImportance(a, b) == \A p \in ImportanceSet : a[p] = b[p]

Position(p) == CHOOSE k \in 1..Len(importance) : importance[k] = p

(* b is a with exactly one numeric importance field changed. *)
OneNumericChange(a, b) ==
  \E p \in ImportanceSet :
    /\ a[p][1] = "num" /\ b[p][1] = "num" /\ a[p][2] # b[p][2]
    /\ \A q \in ImportanceSet \ {p} : a[q] = b[q]

(* The same, where both values of the changed field take the numeric       *)
(* branch (neither 0 nor 1) and no field after it in the list is == True.  *)
OneNumericChangeNoDivision(a, b) ==
  \E p \in ImportanceSet :
    /\ a[p][1] = "num" /\ b[p][1] = "num" /\ a[p][2] # b[p][2]
    /\ a[p][2] \notin {0, 1} /\ b[p][2] \notin {0, 1}
    /\ \A q \in ImportanceSet \ {p} : a[q] = b[q]
    /\ \A q \in ImportanceSet :
         Position(q) > Position(p) => ~(HasAttr(b[q]) /\ EqTrue(b[q]))

(* C1: a compared candidate that equals the current configuration on every *)
(* importance field, with the same fields missing, ends the lockstep       *)
(* computation with conf.id == config.id and is the candidate returned.    *)
C1_EqualFieldsAccepted ==
  \A i \in 1..Len(idlog) :
    SameImportance(scanned[i].conf, config)
      => PyEq(idlog[i][1], idlog[i][2]) /\ last_config = i

C1_Witness ==
  /\ last_config > 0
  /\ SameImportance(scanned[last_config].conf, config)
  /\ \E p \in ImportanceSet : ~HasAttr(config[p])

(* C2 as claimed: a candidate that differs from the current configuration  *)
(* in exactly one numeric importance field is not accepted: the two final  *)
(* accumulators differ.                                                    *)
C2_Claimed ==
  \A i \in 1..Len(idlog) :
    OneNumericChange(scanned[i].conf, config)
      => ~PyEq(idlog[i][1], idlog[i][2]) /\ last_config # i

(* C2 amended: the candidate is not accepted when the changed field takes  *)
(* the numeric branch on both sides and no later importance field is true. *)
C2_NumericChangeRejected ==
  \A i \in 1..Len(idlog) :
    OneNumericChangeNoDivision(scanned[i].conf, config)
      => ~PyEq(idlog[i][1], idlog[i][2]) /\ last_config # i

C2_Witness ==
  \E i \in 1..Len(idlog) :
    /\ OneNumericChangeNoDivision(scanned[i].conf, config)
    /\ ~PyEq(idlog[i][1], idlog[i][2])
    /\ last_config = 0

(* C3: every comparison starts from both ids reset to 1, so its outcome is *)
(* that of the candidate compared on its own; the result is the first      *)
(* globbed file whose final ids are equal, and None only when the whole    *)
(* directory was compared and no file matched.                             *)
C3_FirstMatchInScanOrder ==
  /\ Len(idlog) <= Len(scanned)
  /\ \A i \in 1..Len(idlog) : idlog[i] = FreshFinal(scanned[i].conf, config)
  /\ \A i \in 1..Len(idlog) :
       PyEq(idlog[i][1], idlog[i][2]) <=> (last_config = i)
  /\ last_config > 0 => last_config = Len(idlog)
  /\ last_config = 0 => Len(idlog) = Len(scanned)

C3_Witness ==
  /\ Len(scanned) = 2
  /\ last_config = 2
  /\ ~PyEq(idlog[1][1], idlog[1][2])

(* C4 as claimed: where evaluating a field fails for either configuration  *)
(* of the last comparison, each accumulator gets exactly the false-branch  *)
(* update of that field: times the name length, then rounded, plus 1.      *)
C4_Claimed ==
  \A k \in 1..Len(trace) :
    LET conf == scanned[Len(idlog)].conf
        prev == IF k = 1 THEN << Num(1), Num(1) >> ELSE trace[k - 1]
        L == Len(importance[k])
    IN  (~HasAttr(conf[importance[k]]) \/ ~HasAttr(config[importance[k]]))
          => /\ PyEq(trace[k][1], BranchRound(prev[1], FalseV, L))
             /\ PyEq(trace[k][2], BranchRound(prev[2], FalseV, L))

(* C5 as claimed: within one call the current configuration's final        *)
(* accumulator is the same against every candidate compared.               *)
C5_Claimed ==
  \A i, k \in 1..Len(idlog) : PyEq(idlog[i][2], idlog[k][2])

-----------------------------------------------------------------------------
(* Properties of the sizing and of the sample builders *)

(* The smallest per-class file count of a table. *)
SmallestClass(table) ==
  CHOOSE m \in { table[c] : c \in 1..Len(table) } :
    \A c \in 1..Len(table) : m <= table[c]

(* new is old clamped to maximum: an unset value and one above the maximum *)
(* become the maximum, any other value stays.                              *)
ClampedTo(old, new, maximum) ==
  /\ old = FalseV => new = Num(maximum)
  /\ (old # FalseV /\ old[2] > maximum) => new = Num(maximum)
  /\ (old # FalseV /\ old[2] <= maximum) => new = old

(* C6: once calculateConfigData has run, cat, max_class_files,             *)
(* max_tack_samples and max_data are the given values clamped to           *)
(* len(classes), the smallest per-class file count,                        *)
(* floor(audio_length / sample_length) and the product of the three        *)
(* clamped values; the step never aborts.                                  *)
C6_OverridesClamped ==
  pc # "start" =>
    /\ ClampedTo(given.cat, config.cat, Len(df))
    /\ ClampedTo(given.max_class_files, config.max_class_files,
                 SmallestClass(df))
    /\ ClampedTo(given.max_tack_samples, config.max_tack_samples,
                 config.audio_length[2] \div config.sample_length[2])
    /\ ClampedTo(given.max_data, config.max_data,
                 config.max_class_files[2] * config.cat[2]
                   * config.max_tack_samples[2])

C6_Witness ==
  /\ pc = "sized"
  /\ df = <<2, 1>>
  /\ given.cat = FalseV /\ config.cat = Num(2)
  /\ given.max_class_files = Num(5) /\ config.max_class_files = Num(1)
  /\ given.max_tack_samples = Num(1) /\ config.max_tack_samples = Num(1)
  /\ given.max_data = Num(50) /\ config.max_data = Num(2)

(* C7 as claimed: a random build that skipped no file returns exactly      *)
(* getRefactoredData(n) samples, one per class per round, every label the  *)
(* index of a class.                                                       *)
C7_Claimed ==
  \A i \in 1..Len(out) :
    (out[i].mode = "random" /\ out[i].skips = 0) =>
      /\ Len(out[i].y) = getRefactoredData(out[i].datasets, config)
      /\ \A k \in 1..Len(out[i].y) :
           out[i].y[k] = (k - 1) % Len(df) /\ out[i].y[k] < Len(df)

(* C8 as claimed: a fixed build that skipped no file returns exactly       *)
(* getRefactoredData(n) samples.                                           *)
C8_Claimed ==
  \A i \in 1..Len(out) :
    (out[i].mode = "fixed" /\ out[i].skips = 0) =>
      Len(out[i].y) = getRefactoredData(out[i].datasets, config)

(* C9 as claimed: once min and max are stored on the configuration, a      *)
(* later sample build that returns leaves them unchanged.                  *)
C9_Claimed ==
  [][ (config_min # NoAttr /\ pc' # "crashed")
        => (config_min' = config_min /\ config_max' = config_max) ]_vars

(* C10: with cat >= 1 and max_tack_samples >= 1 after clamping, every      *)
(* file_index the fixed build of the prediction flow looks up in a class   *)
(* is below that class's file count.                                       *)
C10_FileIndexInRange ==
  (config.cat[2] >= 1 /\ config.max_tack_samples[2] >= 1) =>
    \A r \in reads : r[2] < df[r[1]]

C10_Witness ==
  /\ pc = "predicted"
  /\ given.max_data = Num(50)
  /\ given.max_class_files = Num(5)
  /\ Len(df) = 3
  /\ \A c \in 1..Len(df) : <<c, SmallestClass(df) - 1>> \in reads
  /\ \E c \in 1..Len(df) : df[c] > SmallestClass(df)

=============================================================================
